---------------------------- MODULE Spec2Model ----------------------------
(***************************************************************************)
(* A model of the ECS exporter: package ecscollector (NewCollector,        *)
(* Describe, Collect), package ecsmetadata (Client, SetTaskID) and the     *)
(* part of main that builds the collector.                                 *)
(*                                                                         *)
(* Conventions.                                                            *)
(*  - Label names are TLA+ strings.  Every Go string that is a label       *)
(*    value, or that the code splits, is a sequence of one-character       *)
(*    strings.                                                             *)
(*  - A Go slice is a header [arr, len, cap] into a memory of backing      *)
(*    arrays; append follows the gc runtime (growslice and the malloc      *)
(*    size classes, 64-bit target, 16-byte string headers).                *)
(*  - float64 values are kept as exact reduced rationals [num, den]; the   *)
(*    rounding of float64 is not modelled.                                 *)
(*  - uint64 total CPU usage keeps its width: four 16-bit limbs.           *)
(***************************************************************************)
EXTENDS Integers, Sequences, FiniteSets, TLC

VARIABLES
  customLabels,    \* main: the map filled by the --custom-labels flag
  labels,          \* package-level []string (per-container label names)
  svcLabels,       \* package-level []string
  metadataLabels,  \* package-level []string
  cpuLabels,       \* package-level []string
  networkLabels,   \* package-level []string
  desc,            \* the 17 package-level *prometheus.Desc variables
  collectors,      \* the collectors built so far, in order of construction
  scrape,          \* the Collect call whose channel has not been drained
  t,               \* a TaskMetadata receiver of SetTaskID
  cpu,             \* a ContainerStats and the ecs_cpu_utilized value from it
  fetch            \* per scrape: the upstream GET its Collect call waits for

vars == <<customLabels, labels, svcLabels, metadataLabels, cpuLabels,
          networkLabels, desc, collectors, scrape, t, cpu, fetch>>

pkgVars == <<labels, svcLabels, metadataLabels, cpuLabels, networkLabels, desc>>

(***************************************************************************)
(* Bounds of the model.                                                    *)
(***************************************************************************)
MaxExtra == 2
MaxContainers == 2
MaxIfaces == 2
MaxCollectors == 2
MaxArnLen == 4
MaxScrapes == 2

(***************************************************************************)
(* Program constants.                                                      *)
(***************************************************************************)
nanoSeconds == 1000000000
cpuIn1Vcpu == 1024
bytesInMiB == 1024 * 1024

Nil == [nil |-> TRUE]

(***************************************************************************)
(* Strings as character sequences.                                         *)
(***************************************************************************)
Slash == "/"

RECURSIVE Split(_, _)
\* strings.Split(s, sep) for a one-character sep: the parts between the
\* separators, n+1 parts for n separators (one part, s, when there is none).
Split(s, sep) ==
  IF \A i \in 1..Len(s) : s[i] # sep
    THEN <<s>>
    ELSE LET i == CHOOSE j \in 1..Len(s) :
                    s[j] = sep /\ \A k \in 1..(j - 1) : s[k] # sep
         IN <<SubSeq(s, 1, i - 1)>> \o Split(SubSeq(s, i + 1, Len(s)), sep)

\* SetTaskID taking the first part, parts[0]
SetTaskIDFirst(md) == [md EXCEPT !.TaskID = Split(md.TaskARN, Slash)[1]]

\* (t *TaskMetadata) SetTaskID
SetTaskID(md) ==
  LET parts == Split(md.TaskARN, Slash)
  IN [md EXCEPT !.TaskID = parts[Len(parts)]]

Digit(d) == <<"0", "1", "2", "3", "4", "5", "6", "7", "8", "9">>[d + 1]

RECURSIVE Itoa(_)
\* fmt.Sprintf("%d", i) for i >= 0
Itoa(i) == IF i < 10 THEN <<Digit(i)>> ELSE Itoa(i \div 10) \o <<Digit(i % 10)>>

(***************************************************************************)
(* Go slices: append as the gc runtime implements it.                      *)
(***************************************************************************)
SizeClasses ==
  <<8, 16, 24, 32, 48, 64, 80, 96, 112, 128, 144, 160, 176, 192, 208, 224,
    240, 256, 288, 320, 352, 384, 416, 448, 480, 512, 576, 640, 704, 768,
    896, 1024>>

\* runtime.roundupsize: the smallest malloc size class holding n bytes
RoundUpSize(n) ==
  LET fit == {i \in 1..Len(SizeClasses) : SizeClasses[i] >= n}
  IN SizeClasses[CHOOSE i \in fit : \A j \in fit : i <= j]

RECURSIVE GrowLoop(_, _)
GrowLoop(newcap, newLen) ==
  IF newcap >= newLen THEN newcap
  ELSE GrowLoop(newcap + (newcap + 3 * 256) \div 4, newLen)

\* runtime.growslice for []string: the capacity of the array append
\* allocates when newLen elements do not fit in oldCap
GrowCap(oldCap, newLen) ==
  LET doublecap == oldCap + oldCap
      newcap == IF newLen > doublecap THEN newLen
                ELSE IF oldCap < 256 THEN doublecap
                ELSE GrowLoop(oldCap, newLen)
  IN RoundUpSize(newcap * 16) \div 16

NilSlice == [arr |-> 0, len |-> 0, cap |-> 0]

Pad(xs, c) == xs \o [i \in 1..(c - Len(xs)) |-> ""]

\* a composite literal []string{...}: a fresh array, len = cap
SliceLit(mem, xs) ==
  [mem |-> Append(mem, xs),
   s   |-> [arr |-> Len(mem) + 1, len |-> Len(xs), cap |-> Len(xs)]]

\* the elements s[0:len]
Elems(mem, s) == IF s.arr = 0 THEN <<>> ELSE SubSeq(mem[s.arr], 1, s.len)

\* append(s, xs...): in place when the elements fit in the capacity of s
\* (the result then shares the array of s), in a fresh array otherwise
GoAppend(mem, s, xs) ==
  LET n == s.len + Len(xs)
  IN IF n <= s.cap
       THEN [mem |-> IF Len(xs) = 0 THEN mem
                     ELSE [mem EXCEPT ![s.arr] =
                             [i \in 1..s.cap |->
                                IF i > s.len /\ i <= n THEN xs[i - s.len]
                                ELSE @[i]]],
             s   |-> [s EXCEPT !.len = n]]
       ELSE LET c == GrowCap(s.cap, n)
            IN [mem |-> Append(mem, Pad(Elems(mem, s) \o xs, c)),
                s   |-> [arr |-> Len(mem) + 1, len |-> n, cap |-> c]]

RECURSIVE AppendEach(_, _, _)
\* a loop appending the elements of xs one at a time
AppendEach(mem, s, xs) ==
  IF xs = <<>> THEN [mem |-> mem, s |-> s]
  ELSE LET r == GoAppend(mem, s, <<Head(xs)>>)
       IN AppendEach(r.mem, r.s, Tail(xs))

(***************************************************************************)
(* Numbers.                                                                *)
(***************************************************************************)
Abs(n) == IF n < 0 THEN -n ELSE n

RECURSIVE GCD(_, _)
GCD(a, b) == IF b = 0 THEN a ELSE GCD(b, a % b)

\* the rational n/d (d # 0), reduced, with a positive denominator
Rat(n, d) ==
  LET g == GCD(Abs(n), Abs(d))
      sgn == IF d < 0 THEN -1 ELSE 1
  IN [num |-> sgn * (n \div g), den |-> sgn * (d \div g)]

RatInt(n) == [num |-> n, den |-> 1]
RatSub(a, b) == Rat(a.num * b.den - b.num * a.den, a.den * b.den)
RatMulInt(a, k) == LET g == GCD(Abs(k), a.den) IN Rat(a.num * (k \div g), a.den \div g)
RatDivInt(a, k) == LET g == GCD(Abs(a.num), Abs(k)) IN Rat(a.num \div g, a.den * (k \div g))

\* uint64 as four 16-bit limbs, least significant first
Limb == 256 * 256
U64(n) == <<n % Limb, (n \div Limb) % Limb, 0, 0>>
MaxUint64 == <<Limb - 1, Limb - 1, Limb - 1, Limb - 1>>

\* a < b
LessU64(a, b) ==
  \E i \in 1..4 : a[i] < b[i] /\ \A j \in (i + 1)..4 : a[j] = b[j]

\* the borrow out of limbs 1..i of a - b
RECURSIVE Borrow(_, _, _)
Borrow(a, b, i) ==
  IF i = 0 THEN 0
  ELSE IF a[i] - b[i] - Borrow(a, b, i - 1) < 0 THEN 1 ELSE 0

\* a - b on uint64: the difference modulo 2^64
SubU64(a, b) ==
  [i \in 1..4 |-> (a[i] - b[i] - Borrow(a, b, i - 1) + Limb) % Limb]

(***************************************************************************)
(* time.Parse with timeLayout and Time.Sub.  A timestamp string is a       *)
(* record [sec, nsec, zone]: its instant (seconds after a base instant of  *)
(* the current era, and nanoseconds) and the text of its zone.  The layout *)
(* ends in the literal "Z", so only a string ending in "Z" parses.         *)
(***************************************************************************)
ZeroTime == [zero |-> TRUE, sec |-> 0, nsec |-> 0]

\* time.Parse(timeLayout, s), its error dropped: the zero Time on failure
ParseTime(s) ==
  IF s.zone = "Z" THEN [zero |-> FALSE, sec |-> s.sec, nsec |-> s.nsec]
  ELSE ZeroTime

\* a.Sub(b).Nanoseconds(): saturates at the minimum and maximum Duration
\* (the zero Time is year 1, more than 292 years before the base instant)
TimeSub(a, b) ==
  CASE a.zero /\ b.zero -> [sat |-> "none", ns |-> 0]
    [] a.zero /\ ~b.zero -> [sat |-> "min", ns |-> 0]
    [] ~a.zero /\ b.zero -> [sat |-> "max", ns |-> 0]
    [] OTHER -> [sat |-> "none",
                 ns  |-> (a.sec - b.sec) * nanoSeconds + (a.nsec - b.nsec)]

\* cpu_usage_in_vcpu: float64(cpu_delta) / float64(time_diff) * cpuIn1Vcpu,
\* kept as the quotient it is; a division by zero gives NaN or +Inf
CpuUsageInVcpu(s) ==
  LET cpu_delta == SubU64(s.CPUStats.CPUUsage.TotalUsage,
                          s.PreCPUStats.CPUUsage.TotalUsage)
      time_diff_since_last_read == TimeSub(ParseTime(s.Read), ParseTime(s.PreRead))
  IN IF time_diff_since_last_read.sat = "none" /\ time_diff_since_last_read.ns = 0
       THEN [kind |-> IF cpu_delta = U64(0) THEN "NaN" ELSE "+Inf"]
       ELSE [kind |-> "quot", num |-> cpu_delta,
             den |-> time_diff_since_last_read, scale |-> cpuIn1Vcpu]

(***************************************************************************)
(* The upstream documents.                                                 *)
(***************************************************************************)
Endpoint == "http://169.254.170.2/v4/id"

\* extra label names a caller may configure, and the value given to each
ExtraKeys == <<"env", "team", "region", "stage">>
ExtraValue(k) ==
  CASE k = "env" -> <<"p", "r", "o", "d">>
    [] k = "team" -> <<"o", "p", "s">>
    [] k = "region" -> <<"e", "u">>
    [] OTHER -> <<"b", "l", "u", "e">>

CustomLabelMaps ==
  {[k \in S |-> ExtraValue(k)] : S \in SUBSET {ExtraKeys[i] : i \in 1..MaxExtra}}

\* the orders in which a range over map m may deliver its keys
MapOrders(m) ==
  LET n == Cardinality(DOMAIN m)
  IN {o \in [1..n -> DOMAIN m] : \A i, j \in 1..n : o[i] = o[j] => i = j}

DockerIDs == {<<"d", "1">>, <<"d", "2">>}
ContainerName(id) == IF id = <<"d", "1">> THEN <<"a", "p", "p">> ELSE <<"w", "e", "b">>

\* the elements of TaskMetadata.Containers (the fields Collect reads)
MetaContainers == {[DockerID |-> id, Name |-> ContainerName(id)] : id \in DockerIDs}

ContainerLists ==
  UNION {[1..n -> MetaContainers] : n \in 0..MaxContainers}

TaskARNs == {<<"a", "r", "n", ":", "t", "a", "s", "k", "/", "c", "/", "1", "5", "8">>,
             <<"1", "5", "8">>}

\* a decoded TaskMetadata; TaskID has no JSON source and is still empty
TaskDoc(arn, cs) ==
  [Cluster          |-> <<"c", "l">>,
   TaskARN          |-> arn,
   TaskID           |-> <<>>,
   Family           |-> <<"f", "a", "m">>,
   Revision         |-> <<"7">>,
   DesiredStatus    |-> <<"R", "U", "N">>,
   KnownStatus      |-> <<"P", "E", "N", "D">>,
   Limits           |-> [CPU |-> Rat(1, 4), Memory |-> RatInt(512)],
   PullStartedAt    |-> <<"t", "0">>,
   PullStoppedAt    |-> <<"t", "1">>,
   AvailabilityZone |-> <<"a", "z">>,
   LaunchType       |-> <<"F", "G">>,
   Containers       |-> cs]

\* var out TaskMetadata: the zero value
ZeroTaskMetadata ==
  [Cluster |-> <<>>, TaskARN |-> <<>>, TaskID |-> <<>>, Family |-> <<>>,
   Revision |-> <<>>, DesiredStatus |-> <<>>, KnownStatus |-> <<>>,
   Limits |-> [CPU |-> RatInt(0), Memory |-> RatInt(0)],
   PullStartedAt |-> <<>>, PullStoppedAt |-> <<>>, AvailabilityZone |-> <<>>,
   LaunchType |-> <<>>, Containers |-> <<>>]

TaskDocs == {TaskDoc(arn, cs) : arn \in TaskARNs, cs \in ContainerLists}

IfaceNames == <<<<"e", "t", "h", "0">>, <<"e", "t", "h", "1">>,
                <<"l", "o">>, <<"e", "t", "h", "2">>>>
IfaceIndex(name) == CHOOSE i \in 1..Len(IfaceNames) : IfaceNames[i] = name

NetFields == {"RxBytes", "RxPackets", "RxErrors", "RxDropped",
              "TxBytes", "TxPackets", "TxErrors", "TxDropped"}

\* the counters of the i-th interface: all different
NetCounters(i) ==
  [RxBytes   |-> RatInt(100 * i + 1), RxPackets |-> RatInt(100 * i + 2),
   RxErrors  |-> RatInt(100 * i + 3), RxDropped |-> RatInt(100 * i + 4),
   TxBytes   |-> RatInt(100 * i + 5), TxPackets |-> RatInt(100 * i + 6),
   TxErrors  |-> RatInt(100 * i + 7), TxDropped |-> RatInt(100 * i + 8)]

\* ContainerStats.Networks: a map from interface name to counters
NetworkMaps ==
  {[name \in {IfaceNames[i] : i \in 1..n} |-> NetCounters(IfaceIndex(name))] :
     n \in 0..MaxIfaces}

\* MemoryStats.Stats: with and without the "cache" key
MemoryBreakdowns ==
  {[k \in {"rss"} |-> 2097152],
   [k \in {"rss", "cache"} |-> IF k = "cache" THEN 524288 ELSE 2097152],
   [k \in {"rss", "cache"} |-> IF k = "cache" THEN 0 ELSE 2097152]}

PercpuLists == {<<>>, <<1500000000, 250000000>>}

Timestamp(sec, nsec) == [sec |-> sec, nsec |-> nsec, zone |-> "Z"]

\* a ContainerStats (the fields Collect reads)
Stats(total, pretotal, read, preread, percpu, breakdown, nets) ==
  [Read        |-> read,
   PreRead     |-> preread,
   CPUStats    |-> [CPUUsage |-> [TotalUsage |-> total, PercpuUsage |-> percpu]],
   PreCPUStats |-> [CPUUsage |-> [TotalUsage |-> pretotal, PercpuUsage |-> <<>>]],
   MemoryStats |-> [Usage |-> 3145728, Limit |-> 8388608, Stats |-> breakdown],
   Networks    |-> nets]

StatsSet ==
  {Stats(U64(2000000000), U64(1000000000), Timestamp(11, 0), Timestamp(10, 0),
         pc, bd, nw) :
     pc \in PercpuLists, bd \in MemoryBreakdowns, nw \in NetworkMaps}

BaseStats ==
  Stats(U64(2000000000), U64(1000000000), Timestamp(11, 0), Timestamp(10, 0),
        <<1500000000, 250000000>>,
        [k \in {"rss", "cache"} |-> IF k = "cache" THEN 524288 ELSE 2097152],
        [name \in {IfaceNames[1]} |-> NetCounters(1)])

\* the decoded /task/stats documents: a map from Docker ID to *ContainerStats
\* (Nil for a JSON null); at most one entry differs from BaseStats
StatsDocs ==
  {m \in UNION {[S -> StatsSet \cup {Nil, BaseStats}] : S \in SUBSET DockerIDs} :
     Cardinality({id \in DOMAIN m : m[id] \notin {Nil, BaseStats}}) <= 1}

RequestErrors == {"transport", "decode"}

\* what one GET can come to: an error, or a decoded document
MetadataResponses ==
  {[err |-> e, body |-> Nil] : e \in RequestErrors}
    \cup {[err |-> "none", body |-> d] : d \in TaskDocs}

StatsResponses ==
  {[err |-> e, body |-> Nil] : e \in RequestErrors}
    \cup {[err |-> "none", body |-> d] : d \in StatsDocs}

(***************************************************************************)
(* NewCollector.                                                           *)
(***************************************************************************)
NetworkDescs ==
  [networkRxBytesDesc   |-> "ecs_network_receive_bytes_total",
   networkRxPacketsDesc |-> "ecs_network_receive_packets_total",
   networkRxDroppedDesc |-> "ecs_network_receive_dropped_total",
   networkRxErrorsDesc  |-> "ecs_network_receive_errors_total",
   networkTxBytesDesc   |-> "ecs_network_transmit_bytes_total",
   networkTxPacketsDesc |-> "ecs_network_transmit_packets_total",
   networkTxDroppedDesc |-> "ecs_network_transmit_dropped_total",
   networkTxErrorsDesc  |-> "ecs_network_transmit_errors_total"]

\* prometheus.NewDesc(fqName, help, variableLabels, nil)
NewDesc(fqName, variableLabels) ==
  [fqName |-> fqName, variableLabels |-> variableLabels]

\* The slices of NewCollector while it runs: a memory of backing arrays and
\* one header for each slice variable.
NoSlices ==
  [mem |-> <<>>, metadataLabels |-> NilSlice, svcLabels |-> NilSlice,
   labels |-> NilSlice, networkLabels |-> NilSlice, cpuLabels |-> NilSlice,
   customLabelKeys |-> NilSlice, customLabelValues |-> NilSlice]

\* dst = []string{xs...}
Assign(st, dst, xs) ==
  LET r == SliceLit(st.mem, xs)
  IN [st EXCEPT !.mem = r.mem, ![dst] = r.s]

\* dst = append(src, xs...)
AssignAppend(st, dst, src, xs) ==
  LET r == GoAppend(st.mem, st[src], xs)
  IN [st EXCEPT !.mem = r.mem, ![dst] = r.s]

\* dst = append(dst, x) for each x of xs in turn
AssignAppendEach(st, dst, xs) ==
  LET r == AppendEach(st.mem, st[dst], xs)
  IN [st EXCEPT !.mem = r.mem, ![dst] = r.s]

\* the three label lists as NewCollector first assigns them
FixedLabels ==
  Assign(Assign(Assign(NoSlices,
      "metadataLabels", <<"cluster", "task_arn", "family", "revision",
                          "desired_status", "known_status", "pull_started_at",
                          "pull_stopped_at", "availability_zone", "launch_type",
                          "task_id">>),
      "svcLabels", <<"task_arn", "task_id">>),
      "labels", <<"container", "task_id">>)

\* for key, value := range customLabels, delivered in the order `order`
RangeCustomLabels(st, cl, order) ==
  AssignAppendEach(AssignAppendEach(st, "customLabelKeys", order),
                   "customLabelValues", [i \in 1..Len(order) |-> cl[order[i]]])

\* metadataLabels, labels and svcLabels extended by the custom keys
AppendCustomKeys(st) ==
  AssignAppend(
    AssignAppend(
      AssignAppend(st, "metadataLabels", "metadataLabels",
                   Elems(st.mem, st.customLabelKeys)),
      "labels", "labels", Elems(st.mem, st.customLabelKeys)),
    "svcLabels", "svcLabels", Elems(st.mem, st.customLabelKeys))

\* networkLabels = append(labels, "device"); cpuLabels = append(labels, "cpu")
AppendDeviceAndCpu(st) ==
  AssignAppend(AssignAppend(st, "networkLabels", "labels", <<"device">>),
               "cpuLabels", "labels", <<"cpu">>)

\* the label names a slice variable holds
Names(st, v) == Elems(st.mem, st[v])

\* the descriptors, made from the slices as they are after the appends
Descs(st) ==
  [v \in {"metadataDesc", "svcCpuLimitDesc", "svcMemLimitDesc",
          "cpuTotalDesc", "cpuUtilizedDesc", "memoryUtilizedDesc",
          "memUsageDesc", "memLimitDesc", "memCacheUsageDesc"}
        \cup DOMAIN NetworkDescs |->
     CASE v = "metadataDesc" ->
            NewDesc("ecs_metadata_info", Names(st, "metadataLabels"))
       [] v = "svcCpuLimitDesc" ->
            NewDesc("ecs_svc_cpu_limit", Names(st, "svcLabels"))
       [] v = "svcMemLimitDesc" ->
            NewDesc("ecs_svc_memory_limit_bytes", Names(st, "svcLabels"))
       [] v = "cpuTotalDesc" ->
            NewDesc("ecs_cpu_seconds_total", Names(st, "cpuLabels"))
       [] v = "cpuUtilizedDesc" ->
            NewDesc("ecs_cpu_utilized", Names(st, "labels"))
       [] v = "memoryUtilizedDesc" ->
            NewDesc("ecs_memory_utilized_mega_bytes", Names(st, "labels"))
       [] v = "memUsageDesc" ->
            NewDesc("ecs_memory_bytes", Names(st, "labels"))
       [] v = "memLimitDesc" ->
            NewDesc("ecs_memory_limit_bytes", Names(st, "labels"))
       [] v = "memCacheUsageDesc" ->
            NewDesc("ecs_memory_cache_usage", Names(st, "labels"))
       [] OTHER -> NewDesc(NetworkDescs[v], Names(st, "networkLabels"))]

\* the slices when NewCollector returns
FinalSlices(cl, order) ==
  AppendDeviceAndCpu(AppendCustomKeys(RangeCustomLabels(FixedLabels, cl, order)))

\* &collector{client: client, customLabelValues: customLabelValues}
NewCollectorValue(st, cl) ==
  [client |-> [endpoint |-> Endpoint],
   customLabelValues |-> Names(st, "customLabelValues"),
   \* not fields of the collector: the arguments it was built from
   customLabels |-> cl, customLabelKeys |-> Names(st, "customLabelKeys")]

\* NewCollector(client, cl): every package-level variable is assigned anew
NewCollector(cl) ==
  \E order \in MapOrders(cl) :
    /\ metadataLabels' = Names(FinalSlices(cl, order), "metadataLabels")
    /\ labels' = Names(FinalSlices(cl, order), "labels")
    /\ svcLabels' = Names(FinalSlices(cl, order), "svcLabels")
    /\ networkLabels' = Names(FinalSlices(cl, order), "networkLabels")
    /\ cpuLabels' = Names(FinalSlices(cl, order), "cpuLabels")
    /\ desc' = Descs(FinalSlices(cl, order))
    /\ collectors' = Append(collectors, NewCollectorValue(FinalSlices(cl, order), cl))

(***************************************************************************)
(* The metadata client.                                                    *)
(***************************************************************************)
\* (c *Client) request: the error of the GET, of reading the body or of
\* json.Unmarshal; out is written only by a decode that succeeds
request(resp, out) ==
  IF resp.err = "none" THEN [out |-> resp.body, err |-> "none"]
  ELSE [out |-> out, err |-> resp.err]

\* (c *Client) RetrieveTaskMetadata: SetTaskID runs whatever request returned
RetrieveTaskMetadata(resp) ==
  LET r == request(resp, ZeroTaskMetadata)
  IN [out |-> SetTaskID(r.out), err |-> r.err]

\* (c *Client) RetrieveTaskStats: out starts as an empty map
RetrieveTaskStats(resp) == request(resp, <<>>)

(***************************************************************************)
(* Collect.  What a call does is a sequence of steps: a GET, the send of   *)
(* one metric, or the sends of a range over a map, whose order Go leaves   *)
(* open (the metrics of such a range are kept as a set).                   *)
(***************************************************************************)
\* MustNewConstMetric panicking also on a value that is not a finite number
MustNewConstMetricFinite(d, valueType, value, labelValues) ==
  [panic |-> \/ Len(labelValues) # Len(d.variableLabels)
             \/ ("kind" \in DOMAIN value /\ value.kind # "quot"),
   m |-> [desc |-> d.fqName, labelNames |-> d.variableLabels,
          labelValues |-> labelValues, valueType |-> valueType,
          value |-> value]]

\* prometheus.MustNewConstMetric: panics unless there is one label value
\* for each label name of the descriptor
MustNewConstMetric(d, valueType, value, labelValues) ==
  [panic |-> Len(labelValues) # Len(d.variableLabels),
   m |-> [desc |-> d.fqName, labelNames |-> d.variableLabels,
          labelValues |-> labelValues, valueType |-> valueType,
          value |-> value]]

Get(uri) == [kind |-> "GET", uri |-> uri, container |-> 0, panic |-> FALSE, ms |-> {}]

\* ch <- metric; container is the index in metadata.Containers, 0 for the task
Send(container, r) ==
  [kind |-> "send", uri |-> "", container |-> container, panic |-> r.panic,
   ms |-> {r.m}]

\* the sends of a range over a map: every metric of it has the same
\* descriptor labels, so either none or each of them panics
SendRange(container, rs) ==
  [kind |-> "range", uri |-> "", container |-> container,
   panic |-> \E r \in rs : r.panic, ms |-> {r.m : r \in rs}]

\* NetField with the error and dropped counters taken in the order of the
\* fields of ContainerStats.Networks instead of that of the descriptors
NetFieldInStructOrder(v) ==
  CASE v = "networkRxBytesDesc" -> "RxBytes"
    [] v = "networkRxPacketsDesc" -> "RxPackets"
    [] v = "networkRxDroppedDesc" -> "RxErrors"
    [] v = "networkRxErrorsDesc" -> "RxDropped"
    [] v = "networkTxBytesDesc" -> "TxBytes"
    [] v = "networkTxPacketsDesc" -> "TxPackets"
    [] v = "networkTxDroppedDesc" -> "TxErrors"
    [] OTHER -> "TxDropped"

\* the field of the interface counters that each network descriptor reports
NetField(v) ==
  CASE v = "networkRxBytesDesc" -> "RxBytes"
    [] v = "networkRxPacketsDesc" -> "RxPackets"
    [] v = "networkRxDroppedDesc" -> "RxDropped"
    [] v = "networkRxErrorsDesc" -> "RxErrors"
    [] v = "networkTxBytesDesc" -> "TxBytes"
    [] v = "networkTxPacketsDesc" -> "TxPackets"
    [] v = "networkTxDroppedDesc" -> "TxDropped"
    [] OTHER -> "TxErrors"

\* MemoryUtilizedSteps with the send moved out of the `if`: cacheValue is 0
\* without the key
MemoryUtilizedAlways(i, s, vals) ==
  <<Send(i, MustNewConstMetric(desc.memoryUtilizedDesc, "gauge",
              RatDivInt(RatSub(RatInt(s.MemoryStats.Usage),
                               IF "cache" \in DOMAIN s.MemoryStats.Stats
                                 THEN RatInt(s.MemoryStats.Stats["cache"])
                                 ELSE RatInt(0)),
                        bytesInMiB),
              vals))>>

\* the ecs_memory_utilized_mega_bytes send, made only inside the
\* `if val, ok := s.MemoryStats.Stats["cache"]; ok` block
MemoryUtilizedSteps(i, s, vals) ==
  IF "cache" \in DOMAIN s.MemoryStats.Stats
    THEN <<Send(i, MustNewConstMetric(desc.memoryUtilizedDesc, "gauge",
                  RatDivInt(RatSub(RatInt(s.MemoryStats.Usage),
                                   RatInt(s.MemoryStats.Stats["cache"])),
                            bytesInMiB),
                  vals))>>
    ELSE <<>>

\* the three gauges ranged over after it
MemoryGaugeSteps(i, s, vals) ==
  LET cacheValue == IF "cache" \in DOMAIN s.MemoryStats.Stats
                      THEN RatInt(s.MemoryStats.Stats["cache"]) ELSE RatInt(0)
  IN <<SendRange(i,
         {MustNewConstMetric(desc.memUsageDesc, "gauge",
                             RatInt(s.MemoryStats.Usage), vals),
          MustNewConstMetric(desc.memLimitDesc, "gauge",
                             RatInt(s.MemoryStats.Limit), vals),
          MustNewConstMetric(desc.memCacheUsageDesc, "gauge", cacheValue, vals)})>>

\* for iface, netStats := range s.Networks, and in it the range over the
\* eight descriptors; networkLabelVals := append(labelVals, iface)
NetworkSteps(i, s, mem, labelVals) ==
  IF DOMAIN s.Networks = {} THEN <<>>
  ELSE <<SendRange(i,
           {MustNewConstMetric(desc[v], "counter", s.Networks[iface][NetField(v)],
                LET a == GoAppend(mem, labelVals, <<iface>>) IN Elems(a.mem, a.s)) :
              iface \in DOMAIN s.Networks, v \in DOMAIN NetworkDescs})>>

\* the body of the loop over metadata.Containers for container i, whose
\* stats s were found.  An append to labelVals that fits its capacity writes
\* the one spare slot behind its length, and each metric is built from the
\* result before the next append.
ContainerSteps(c, metadata, i, s) ==
  LET l0 == SliceLit(<<>>, <<metadata.Containers[i].Name, metadata.TaskID>>)
      l1 == GoAppend(l0.mem, l0.s, c.customLabelValues)
      labelVals == l1.s
      vals == Elems(l1.mem, labelVals)
      percpu == s.CPUStats.CPUUsage.PercpuUsage
  IN <<Send(i, MustNewConstMetric(desc.cpuUtilizedDesc, "gauge",
                                  CpuUsageInVcpu(s), vals))>>
     \o [k \in 1..Len(percpu) |->
           Send(i, MustNewConstMetric(desc.cpuTotalDesc, "counter",
                     Rat(percpu[k], nanoSeconds),
                     LET a == GoAppend(l1.mem, labelVals, <<Itoa(k - 1)>>)
                     IN Elems(a.mem, a.s)))]
     \o MemoryUtilizedSteps(i, s, vals)
     \o MemoryGaugeSteps(i, s, vals)
     \o NetworkSteps(i, s, l1.mem, labelVals)

\* s := stats[container.DockerID]: nil for a missing key and for a null entry
StatsOf(stats, id) == IF id \in DOMAIN stats THEN stats[id] ELSE Nil

RECURSIVE ContainersStepsReturn(_, _, _, _)
\* ContainersSteps with `return` in place of `continue`
ContainersStepsReturn(c, metadata, stats, i) ==
  IF i > Len(metadata.Containers) THEN <<>>
  ELSE LET s == StatsOf(stats, metadata.Containers[i].DockerID)
       IN IF s = Nil THEN <<>>
          ELSE ContainerSteps(c, metadata, i, s)
               \o ContainersStepsReturn(c, metadata, stats, i + 1)

RECURSIVE ContainersSteps(_, _, _, _)
\* for _, container := range metadata.Containers, from index i on
ContainersSteps(c, metadata, stats, i) ==
  IF i > Len(metadata.Containers) THEN <<>>
  ELSE LET s == StatsOf(stats, metadata.Containers[i].DockerID)
       IN (IF s = Nil THEN <<>> ELSE ContainerSteps(c, metadata, i, s))
          \o ContainersSteps(c, metadata, stats, i + 1)

\* the three samples made from the metadata alone
MetadataSteps(c, metadata) ==
  LET metadataLableVals ==
        <<metadata.Cluster, metadata.TaskARN, metadata.Family, metadata.Revision,
          metadata.DesiredStatus, metadata.KnownStatus, metadata.PullStartedAt,
          metadata.PullStoppedAt, metadata.AvailabilityZone, metadata.LaunchType,
          metadata.TaskID>> \o c.customLabelValues
      svcLableVals == <<metadata.TaskARN, metadata.TaskID>> \o c.customLabelValues
  IN <<Send(0, MustNewConstMetric(desc.metadataDesc, "gauge", RatInt(1),
                                  metadataLableVals)),
       Send(0, MustNewConstMetric(desc.svcCpuLimitDesc, "gauge",
                                  RatMulInt(metadata.Limits.CPU, 1024),
                                  svcLableVals)),
       Send(0, MustNewConstMetric(desc.svcMemLimitDesc, "gauge",
                                  metadata.Limits.Memory, svcLableVals))>>

\* CollectSteps with a second GET of the metadata after a failed one
CollectStepsRetryMetadata(c, mdResp, stResp) ==
  LET md == RetrieveTaskMetadata(mdResp)
      st == RetrieveTaskStats(stResp)
  IN <<Get(<<c.client.endpoint, "/task">>)>>
     \o (IF md.err # "none" THEN <<Get(<<c.client.endpoint, "/task">>)>>
         ELSE MetadataSteps(c, md.out)
              \o <<Get(<<c.client.endpoint, "/task/stats">>)>>
              \o (IF st.err # "none" THEN <<>>
                  ELSE ContainersSteps(c, md.out, st.out, 1)))

\* CollectSteps without the `return` after a failed metadata fetch
CollectStepsPastMetadataError(c, mdResp, stResp) ==
  LET md == RetrieveTaskMetadata(mdResp)
      st == RetrieveTaskStats(stResp)
  IN <<Get(<<c.client.endpoint, "/task">>)>>
     \o MetadataSteps(c, md.out)
     \o <<Get(<<c.client.endpoint, "/task/stats">>)>>
     \o (IF st.err # "none" THEN <<>>
         ELSE ContainersSteps(c, md.out, st.out, 1))

\* CollectSteps with both fetches made before the first send
CollectStepsFetchFirst(c, mdResp, stResp) ==
  LET md == RetrieveTaskMetadata(mdResp)
      st == RetrieveTaskStats(stResp)
  IN <<Get(<<c.client.endpoint, "/task">>)>>
     \o (IF md.err # "none" THEN <<>>
         ELSE <<Get(<<c.client.endpoint, "/task/stats">>)>>
              \o (IF st.err # "none" THEN <<>>
                  ELSE MetadataSteps(c, md.out)
                       \o ContainersSteps(c, md.out, st.out, 1)))

\* the steps of (c *collector) Collect if none of them panics
CollectSteps(c, mdResp, stResp) ==
  LET md == RetrieveTaskMetadata(mdResp)
      st == RetrieveTaskStats(stResp)
  IN <<Get(<<c.client.endpoint, "/task">>)>>
     \o (IF md.err # "none" THEN <<>>
         ELSE MetadataSteps(c, md.out)
              \o <<Get(<<c.client.endpoint, "/task/stats">>)>>
              \o (IF st.err # "none" THEN <<>>
                  ELSE ContainersSteps(c, md.out, st.out, 1)))

\* the steps made before the first one that panics
Run(steps) ==
  LET bad == {k \in 1..Len(steps) : steps[k].panic}
  IN IF bad = {} THEN [trace |-> steps, outcome |-> "returned"]
     ELSE [trace |-> SubSeq(steps, 1, (CHOOSE k \in bad : \A j \in bad : k <= j) - 1),
           outcome |-> "panic"]

\* (c *collector) Describe: the descriptors it sends, in order
Describe ==
  <<desc.cpuTotalDesc, desc.cpuUtilizedDesc, desc.memoryUtilizedDesc,
    desc.memUsageDesc, desc.memLimitDesc, desc.memCacheUsageDesc,
    desc.networkRxBytesDesc, desc.networkRxPacketsDesc,
    desc.networkRxDroppedDesc, desc.networkRxErrorsDesc,
    desc.networkTxBytesDesc, desc.networkTxPacketsDesc,
    desc.networkTxDroppedDesc, desc.networkTxErrorsDesc>>

Idle == [active |-> FALSE]

\* no Collect call has begun
NoFetches == [s \in 1..MaxScrapes |-> [pc |-> "idle"]]

\* one call of Collect on collector number n, against an upstream that
\* answers the two GETs with mdResp and stResp
Collect(n, mdResp, stResp) ==
  /\ ~scrape.active
  /\ LET r == Run(CollectSteps(collectors[n], mdResp, stResp))
     IN scrape' = [active |-> TRUE, collector |-> n, mdResp |-> mdResp,
                   stResp |-> stResp, trace |-> r.trace, outcome |-> r.outcome]
  /\ UNCHANGED <<customLabels, pkgVars, collectors, t, cpu, fetch>>

\* the caller of Collect has read the channel to its end; a panic in Collect
\* ends the process instead
ScrapeDone ==
  /\ scrape.active
  /\ scrape.outcome = "returned"
  /\ scrape' = Idle
  /\ UNCHANGED <<customLabels, pkgVars, collectors, t, cpu, fetch>>

(***************************************************************************)
(* The exporter: main builds one collector from the parsed flag, and the   *)
(* registry calls its Collect once per scrape.                             *)
(***************************************************************************)
NoCatalog ==
  /\ labels = <<>> /\ svcLabels = <<>> /\ metadataLabels = <<>>
  /\ cpuLabels = <<>> /\ networkLabels = <<>>
  /\ desc = Nil

Init ==
  /\ customLabels \in CustomLabelMaps
  /\ NoCatalog
  /\ collectors = <<>>
  /\ scrape = Idle
  /\ t = ZeroTaskMetadata
  /\ cpu = Nil
  /\ fetch = NoFetches

\* main: ecscollector.NewCollector(client, customLabels)
Main ==
  /\ collectors = <<>>
  /\ NewCollector(customLabels)
  /\ UNCHANGED <<customLabels, scrape, t, cpu, fetch>>

Scrape ==
  /\ collectors # <<>>
  /\ ~scrape.active
  /\ \E mdResp \in MetadataResponses, stResp \in StatsResponses :
       Collect(1, mdResp, stResp)

Next == Main \/ Scrape \/ ScrapeDone

Spec == Init /\ [][Next]_vars

(***************************************************************************)
(* The package used as a library: several collectors may be built, each    *)
(* call of NewCollector assigning the package-level variables anew.        *)
(***************************************************************************)
LibMetadataResponses ==
  {[err |-> "none", body |-> TaskDoc(<<"t", "/", "1">>, cs)] :
     cs \in {c \in ContainerLists : Len(c) = 1}}

LibStatsResponses ==
  {[err |-> "none", body |-> [id \in DockerIDs |-> BaseStats]],
   [err |-> "transport", body |-> Nil]}

InitLib ==
  /\ customLabels = <<>>
  /\ NoCatalog
  /\ collectors = <<>>
  /\ scrape = Idle
  /\ t = ZeroTaskMetadata
  /\ cpu = Nil
  /\ fetch = NoFetches

LibNewCollector ==
  \E cl \in CustomLabelMaps :
    /\ Len(collectors) < MaxCollectors
    /\ NewCollector(cl)
    /\ UNCHANGED <<customLabels, scrape, t, cpu, fetch>>

LibScrape ==
  /\ ~scrape.active
  /\ \E n \in 1..Len(collectors), mdResp \in LibMetadataResponses,
        stResp \in LibStatsResponses :
       Collect(n, mdResp, stResp)

NextLib == LibNewCollector \/ LibScrape \/ ScrapeDone

SpecLib == InitLib /\ [][NextLib]_vars

(***************************************************************************)
(* SetTaskID and RetrieveTaskMetadata on every short task ARN.             *)
(***************************************************************************)
ArnChars == {"t", "1", "/"}
ArnStrings == UNION {[1..n -> ArnChars] : n \in 0..MaxArnLen}

InitTaskID ==
  /\ customLabels = <<>>
  /\ NoCatalog
  /\ collectors = <<>>
  /\ scrape = Idle
  /\ t \in {[pc |-> "decoded", md |-> TaskDoc(arn, <<>>)] : arn \in ArnStrings}
  /\ cpu = Nil
  /\ fetch = NoFetches

\* t.SetTaskID() on a decoded document
CallSetTaskID ==
  /\ t.pc = "decoded"
  /\ t' = [pc |-> "set", md |-> SetTaskID(t.md)]
  /\ UNCHANGED <<customLabels, pkgVars, collectors, scrape, cpu, fetch>>

\* RetrieveTaskMetadata against an upstream that serves the document
CallRetrieveTaskMetadata ==
  /\ t.pc = "decoded"
  /\ t' = [pc |-> "returned",
           md |-> RetrieveTaskMetadata([err |-> "none", body |-> t.md]).out]
  /\ UNCHANGED <<customLabels, pkgVars, collectors, scrape, cpu, fetch>>

NextTaskID == CallSetTaskID \/ CallRetrieveTaskMetadata

SpecTaskID == InitTaskID /\ [][NextTaskID]_vars

(***************************************************************************)
(* The ecs_cpu_utilized value on pairs of total usages and of timestamps.  *)
(***************************************************************************)
TotalUsages ==
  {U64(0), U64(1), U64(1000000000), U64(2000000000), MaxUint64}

Timestamps ==
  {Timestamp(10, 0), Timestamp(10, 500000000), Timestamp(11, 0),
   [sec |-> 11, nsec |-> 0, zone |-> "+00:00"]}

CpuStats ==
  {Stats(total, pretotal, read, preread, <<>>, [k \in {"rss"} |-> 2097152], <<>>) :
     total \in TotalUsages, pretotal \in TotalUsages,
     read \in Timestamps, preread \in Timestamps}

InitCpu ==
  /\ customLabels = <<>>
  /\ NoCatalog
  /\ collectors = <<>>
  /\ scrape = Idle
  /\ t = ZeroTaskMetadata
  /\ cpu \in {[pc |-> "stats", s |-> s, value |-> Nil] : s \in CpuStats}
  /\ fetch = NoFetches

\* the computation of cpu_usage_in_vcpu in Collect
ComputeCpuUsage ==
  /\ cpu.pc = "stats"
  /\ cpu' = [pc |-> "computed", s |-> cpu.s, value |-> CpuUsageInVcpu(cpu.s)]
  /\ UNCHANGED <<customLabels, pkgVars, collectors, scrape, t, fetch>>

NextCpu == ComputeCpuUsage

SpecCpu == InitCpu /\ [][NextCpu]_vars

(***************************************************************************)
(* The exporter against an upstream whose stats have timestamps that do    *)
(* not parse, no or negative elapsed time, no cores and no interfaces.     *)
(***************************************************************************)
\* read and preread: in order, equal, reversed, and not in the layout
TimestampPairs ==
  LET bad == [sec |-> 11, nsec |-> 0, zone |-> "+00:00"]
  IN {<<Timestamp(11, 0), Timestamp(10, 0)>>,
      <<Timestamp(10, 0), Timestamp(10, 0)>>,
      <<Timestamp(10, 0), Timestamp(11, 0)>>,
      <<bad, Timestamp(10, 0)>>,
      <<Timestamp(11, 0), bad>>,
      <<bad, bad>>}

OutcomeStatsSet ==
  {Stats(total, U64(1000000000), rp[1], rp[2], pc,
         [k \in {"rss", "cache"} |-> IF k = "cache" THEN 524288 ELSE 2097152],
         nw) :
     total \in {U64(2000000000), U64(1000000000)}, rp \in TimestampPairs,
     pc \in PercpuLists,
     nw \in {n \in NetworkMaps : Cardinality(DOMAIN n) <= 1}}

\* as StatsDocs: at most one entry differs from BaseStats
OutcomeStatsDocs ==
  {m \in UNION {[S -> OutcomeStatsSet \cup {Nil, BaseStats}] :
                  S \in SUBSET DockerIDs} :
     Cardinality({id \in DOMAIN m : m[id] \notin {Nil, BaseStats}}) <= 1}

OutcomeMetadataResponses ==
  {[err |-> e, body |-> Nil] : e \in RequestErrors}
    \cup {[err |-> "none", body |-> TaskDoc(<<"t", "/", "1">>, cs)] :
            cs \in {c \in ContainerLists : Len(c) \in 1..2}}

OutcomeStatsResponses ==
  {[err |-> e, body |-> Nil] : e \in RequestErrors}
    \cup {[err |-> "none", body |-> d] : d \in OutcomeStatsDocs}

InitOutcomes ==
  /\ customLabels \in {cl \in CustomLabelMaps : Cardinality(DOMAIN cl) <= 1}
  /\ NoCatalog
  /\ collectors = <<>>
  /\ scrape = Idle
  /\ t = ZeroTaskMetadata
  /\ cpu = Nil
  /\ fetch = NoFetches

OutcomeScrape ==
  /\ collectors # <<>>
  /\ ~scrape.active
  /\ \E mdResp \in OutcomeMetadataResponses, stResp \in OutcomeStatsResponses :
       Collect(1, mdResp, stResp)

NextOutcomes == Main \/ OutcomeScrape \/ ScrapeDone

SpecOutcomes == InitOutcomes /\ [][NextOutcomes]_vars

(***************************************************************************)
(* Concurrent scrapes and their upstream GETs.  The /metrics handler       *)
(* serves each scrape on its own goroutine; the scrape's HTTP request has  *)
(* a context that is cancelled when its client goes away.  A GET returns   *)
(* when the upstream has answered or when the context given to it is done. *)
(***************************************************************************)
\* ctx.Done() is closed: context.Background() is never cancelled, a context
\* derived from the scrape's request is cancelled with it
Done(ctx, cancelled) == ctx # "Background" /\ cancelled

InFlight(f) == f.pc \in {"metadata", "stats"}

InitCancel ==
  /\ customLabels = <<>>
  /\ NoCatalog
  /\ collectors = <<>>
  /\ scrape = Idle
  /\ t = ZeroTaskMetadata
  /\ cpu = Nil
  /\ fetch = NoFetches

\* Collect begins: ctx := context.Background(), and the metadata GET is sent
BeginCollect(s) ==
  /\ fetch[s].pc = "idle"
  /\ fetch' = [fetch EXCEPT ![s] = [pc |-> "metadata", ctx |-> "Background",
                                    cancelled |-> FALSE, answer |-> "none",
                                    err |-> "none"]]
  /\ UNCHANGED <<customLabels, pkgVars, collectors, scrape, t, cpu>>

\* the client of scrape s goes away while a GET of the scrape is in flight
ClientCancels(s) ==
  /\ InFlight(fetch[s])
  /\ ~fetch[s].cancelled
  /\ fetch' = [fetch EXCEPT ![s].cancelled = TRUE]
  /\ UNCHANGED <<customLabels, pkgVars, collectors, scrape, t, cpu>>

\* the upstream answers the GET in flight, with a document or a failure
UpstreamAnswers(s) ==
  /\ InFlight(fetch[s])
  /\ fetch[s].answer = "none"
  /\ \E a \in {"ok"} \cup RequestErrors :
       fetch' = [fetch EXCEPT ![s].answer = a]
  /\ UNCHANGED <<customLabels, pkgVars, collectors, scrape, t, cpu>>

\* c.HTTPClient.Do(req) returns and Collect goes on: with the context's
\* error if ctx is done, else with the answer; Collect returns on an error
\* and after the stats, and sends the stats GET after the metadata
RequestReturns(s) ==
  /\ InFlight(fetch[s])
  /\ Done(fetch[s].ctx, fetch[s].cancelled) \/ fetch[s].answer # "none"
  /\ fetch' = [fetch EXCEPT ![s] =
       IF Done(fetch[s].ctx, fetch[s].cancelled)
         THEN [@ EXCEPT !.pc = "returned", !.err = "context canceled"]
       ELSE IF fetch[s].answer # "ok"
         THEN [@ EXCEPT !.pc = "returned", !.err = fetch[s].answer]
       ELSE IF fetch[s].pc = "metadata"
         THEN [@ EXCEPT !.pc = "stats", !.answer = "none"]
       ELSE [@ EXCEPT !.pc = "returned"]]
  /\ UNCHANGED <<customLabels, pkgVars, collectors, scrape, t, cpu>>

\* the handler of scrape s has ended; the next scrape may take its place
HandlerEnds(s) ==
  /\ fetch[s].pc = "returned"
  /\ fetch' = [fetch EXCEPT ![s] = [pc |-> "idle"]]
  /\ UNCHANGED <<customLabels, pkgVars, collectors, scrape, t, cpu>>

NextCancel ==
  \E s \in 1..MaxScrapes :
    \/ BeginCollect(s)
    \/ ClientCancels(s)
    \/ UpstreamAnswers(s)
    \/ RequestReturns(s)
    \/ HandlerEnds(s)

SpecCancel == InitCancel /\ [][NextCancel]_vars

(***************************************************************************)
(* Properties.                                                             *)
(***************************************************************************)
\* every metric sent by the current Collect call, with the step that sent it
Emitted ==
  UNION {{[step |-> k, container |-> scrape.trace[k].container, m |-> m] :
            m \in scrape.trace[k].ms} : k \in 1..Len(scrape.trace)}

Gets(uri) == {k \in 1..Len(scrape.trace) :
                scrape.trace[k].kind = "GET" /\ scrape.trace[k].uri[2] = uri}

MetadataOK == scrape.active /\ scrape.mdResp.err = "none"
BothOK == MetadataOK /\ scrape.stResp.err = "none"

\* the decoded documents of the current call
Doc == scrape.mdResp.body
StatsDoc == scrape.stResp.body
StatsAt(i) == StatsOf(StatsDoc, Doc.Containers[i].DockerID)

\* the substring of s after its last "/" (s itself when it has none)
AfterLastSlash(s) ==
  LET at == {i \in 1..Len(s) : s[i] = "/"}
  IN IF at = {} THEN s
     ELSE SubSeq(s, (CHOOSE i \in at : \A j \in at : j <= i) + 1, Len(s))

FixedMetadataValue(name) ==
  CASE name = "cluster" -> Doc.Cluster
    [] name = "task_arn" -> Doc.TaskARN
    [] name = "family" -> Doc.Family
    [] name = "revision" -> Doc.Revision
    [] name = "desired_status" -> Doc.DesiredStatus
    [] name = "known_status" -> Doc.KnownStatus
    [] name = "pull_started_at" -> Doc.PullStartedAt
    [] name = "pull_stopped_at" -> Doc.PullStoppedAt
    [] name = "availability_zone" -> Doc.AvailabilityZone
    [] name = "launch_type" -> Doc.LaunchType
    [] OTHER -> AfterLastSlash(Doc.TaskARN)

\* v is the value that belongs to label `name` of emitted metric e
Belongs(e, name, v) ==
  LET c == collectors[scrape.collector]
  IN CASE name \in DOMAIN c.customLabels -> v = c.customLabels[name]
       [] name = "container" ->
            e.container > 0 /\ v = Doc.Containers[e.container].Name
       [] name = "device" ->
            /\ e.container > 0
            /\ v \in DOMAIN StatsAt(e.container).Networks
            /\ \E f \in NetFields : e.m.value = StatsAt(e.container).Networks[v][f]
       [] name = "cpu" ->
            /\ e.container > 0
            /\ \E k \in 1..Len(StatsAt(e.container).CPUStats.CPUUsage.PercpuUsage) :
                 /\ v = Itoa(k - 1)
                 /\ e.m.value =
                      Rat(StatsAt(e.container).CPUStats.CPUUsage.PercpuUsage[k],
                          nanoSeconds)
       [] name \in {"cluster", "task_arn", "family", "revision", "desired_status",
                    "known_status", "pull_started_at", "pull_stopped_at",
                    "availability_zone", "launch_type", "task_id"} ->
            v = FixedMetadataValue(name)
       [] OTHER -> FALSE

\* C1: every sample emitted by Collect has as many label values as its
\* descriptor has label names, and the value at each index is the one that
\* belongs to the name at that index: the metadata or container value for a
\* fixed name, the configured value for an extra name.
C1_LabelValuesAligned ==
  scrape.active =>
    \A e \in Emitted :
      /\ Len(e.m.labelValues) = Len(e.m.labelNames)
      /\ \A i \in 1..Len(e.m.labelNames) :
           Belongs(e, e.m.labelNames[i], e.m.labelValues[i])

\* C2: after NewCollector the per-container list is container, task_id and
\* the extra names; the network descriptors have that list plus "device",
\* the per-core descriptor that list plus "cpu".
C2_DeviceAndCpuLabels ==
  collectors # <<>> =>
    LET perContainer ==
          <<"container", "task_id">>
            \o collectors[Len(collectors)].customLabelKeys
    IN /\ labels = perContainer
       /\ networkLabels = perContainer \o <<"device">>
       /\ cpuLabels = perContainer \o <<"cpu">>
       /\ \A v \in DOMAIN NetworkDescs :
            desc[v].variableLabels = perContainer \o <<"device">>
       /\ desc.cpuTotalDesc.variableLabels = perContainer \o <<"cpu">>

\* C3: two constructions of the collector from the same custom-label map put
\* the extra label names, and their values, in the same order.
C3_SameMapSameOrder ==
  \A i, j \in 1..Len(collectors) :
    collectors[i].customLabels = collectors[j].customLabels =>
      /\ collectors[i].customLabelKeys = collectors[j].customLabelKeys
      /\ collectors[i].customLabelValues = collectors[j].customLabelValues

\* C4: a Collect call whose metadata fetch fails sends no sample, does not
\* fetch the stats, and returns.
C4_MetadataFailureEmitsNothing ==
  (scrape.active /\ scrape.mdResp.err # "none") =>
    /\ Emitted = {}
    /\ Cardinality(Gets("/task")) = 1
    /\ Gets("/task/stats") = {}
    /\ scrape.outcome = "returned"

C4_Witness ==
  /\ scrape.active
  /\ scrape.mdResp.err = "decode"
  /\ scrape.stResp.err = "none"
  /\ collectors[1].customLabelKeys # <<>>

\* C5: a Collect call whose metadata fetch succeeds and whose stats fetch
\* fails sends exactly the three samples made from the metadata, the info
\* sample with value 1, none for a container, and returns.
C5_StatsFailureKeepsMetadataSamples ==
  (MetadataOK /\ scrape.stResp.err # "none") =>
    /\ Cardinality(Emitted) = 3
    /\ \A e \in Emitted : e.container = 0
    /\ {e.m.desc : e \in Emitted} =
         {"ecs_metadata_info", "ecs_svc_cpu_limit", "ecs_svc_memory_limit_bytes"}
    /\ \A e \in Emitted : e.m.desc = "ecs_metadata_info" => e.m.value = RatInt(1)
    /\ scrape.outcome = "returned"

C5_Witness ==
  /\ MetadataOK
  /\ scrape.stResp.err = "transport"
  /\ Cardinality(Emitted) = 3
  /\ Len(Doc.Containers) = 2

\* the samples among E sent for container i
Of(E, i) == {e \in E : e.container = i}

\* the number of samples among E with descriptor fqName
CountOf(E, fqName) == Cardinality({e \in E : e.m.desc = fqName})

\* the number of samples a container with stats s is due
FullCount(s) ==
  1 + Len(s.CPUStats.CPUUsage.PercpuUsage)
    + (IF "cache" \in DOMAIN s.MemoryStats.Stats THEN 1 ELSE 0)
    + 3 + 8 * Cardinality(DOMAIN s.Networks)

\* C6: a container without a stats entry contributes no sample, and every
\* container with one gets its full set, wherever the missing one stands.
C6_MissingStatsSkipsOnlyThatContainer ==
  BothOK =>
    LET all == Emitted
    IN \A i \in 1..Len(Doc.Containers) :
         LET mine == Of(all, i)
         IN IF StatsAt(i) = Nil
              THEN mine = {}
              ELSE /\ Cardinality(mine) = FullCount(StatsAt(i))
                   /\ CountOf(mine, "ecs_cpu_utilized") = 1
                   /\ CountOf(mine, "ecs_cpu_seconds_total") =
                        Len(StatsAt(i).CPUStats.CPUUsage.PercpuUsage)
                   /\ CountOf(mine, "ecs_memory_bytes") = 1
                   /\ CountOf(mine, "ecs_memory_limit_bytes") = 1
                   /\ CountOf(mine, "ecs_memory_cache_usage") = 1
                   /\ \A v \in DOMAIN NetworkDescs :
                        CountOf(mine, NetworkDescs[v]) =
                          Cardinality(DOMAIN StatsAt(i).Networks)
                   /\ \A e \in mine :
                        e.m.labelValues[1] = Doc.Containers[i].Name

C6_Witness ==
  /\ BothOK
  /\ Len(Doc.Containers) = 2
  /\ StatsAt(1) = Nil
  /\ Doc.Containers[1].DockerID \notin DOMAIN StatsDoc
  /\ StatsAt(2) # Nil
  /\ Cardinality(Of(Emitted, 2)) = FullCount(StatsAt(2))
  /\ Of(Emitted, 1) = {}

\* the one sample among E with descriptor fqName has value v
OnlyValue(E, fqName, v) ==
  /\ CountOf(E, fqName) = 1
  /\ \A e \in E : e.m.desc = fqName => e.m.value = v

\* C7: without a "cache" key no ecs_memory_utilized_mega_bytes sample is sent
\* and ecs_memory_cache_usage is 0; with the key, the first is sent once with
\* (usage - cache) / (1024 * 1024) and the second carries the cache value;
\* ecs_memory_bytes and ecs_memory_limit_bytes are sent once in both cases.
C7_MemoryUtilizedOnlyWithCache ==
  BothOK =>
    LET all == Emitted
    IN \A i \in 1..Len(Doc.Containers) :
         StatsAt(i) # Nil =>
           LET mem == StatsAt(i).MemoryStats
               mine == Of(all, i)
           IN /\ CountOf(mine, "ecs_memory_bytes") = 1
              /\ CountOf(mine, "ecs_memory_limit_bytes") = 1
              /\ IF "cache" \in DOMAIN mem.Stats
                   THEN /\ OnlyValue(mine, "ecs_memory_utilized_mega_bytes",
                              Rat(mem.Usage - mem.Stats["cache"], 1024 * 1024))
                        /\ OnlyValue(mine, "ecs_memory_cache_usage",
                                     RatInt(mem.Stats["cache"]))
                   ELSE /\ CountOf(mine, "ecs_memory_utilized_mega_bytes") = 0
                        /\ OnlyValue(mine, "ecs_memory_cache_usage", RatInt(0))

C7_WitnessNoCache ==
  /\ BothOK
  /\ Len(Doc.Containers) = 2
  /\ StatsAt(1) # Nil
  /\ "cache" \notin DOMAIN StatsAt(1).MemoryStats.Stats
  /\ CountOf(Of(Emitted, 1), "ecs_memory_utilized_mega_bytes") = 0
  /\ CountOf(Of(Emitted, 1), "ecs_memory_cache_usage") = 1
  /\ StatsAt(2) # Nil
  /\ "cache" \in DOMAIN StatsAt(2).MemoryStats.Stats
  /\ OnlyValue(Of(Emitted, 2), "ecs_memory_utilized_mega_bytes", Rat(5, 2))

\* the samples among E of the eight network descriptors
NetworkSamples(E) ==
  {e \in E : \E v \in DOMAIN NetworkDescs : e.m.desc = NetworkDescs[v]}

\* what the eight descriptors are to report for interface counters n
NetworkWanted(n) ==
  {<<"ecs_network_receive_bytes_total", n.RxBytes>>,
   <<"ecs_network_receive_packets_total", n.RxPackets>>,
   <<"ecs_network_receive_dropped_total", n.RxDropped>>,
   <<"ecs_network_receive_errors_total", n.RxErrors>>,
   <<"ecs_network_transmit_bytes_total", n.TxBytes>>,
   <<"ecs_network_transmit_packets_total", n.TxPackets>>,
   <<"ecs_network_transmit_dropped_total", n.TxDropped>>,
   <<"ecs_network_transmit_errors_total", n.TxErrors>>}

\* C8: a container whose stats have N network interfaces gets exactly 8 * N
\* network samples: for each interface one sample of each of the eight
\* counters, with that interface's value of the counter and with the
\* interface name as its last label value.
C8_EightSamplesPerInterface ==
  BothOK =>
    LET all == Emitted
    IN \A i \in 1..Len(Doc.Containers) :
         StatsAt(i) # Nil =>
           LET nets == StatsAt(i).Networks
               sent == NetworkSamples(Of(all, i))
           IN /\ Cardinality(sent) = 8 * Cardinality(DOMAIN nets)
              /\ \A iface \in DOMAIN nets :
                   LET its == {e \in sent :
                                 e.m.labelValues[Len(e.m.labelValues)] = iface}
                   IN /\ Cardinality(its) = 8
                      /\ \A want \in NetworkWanted(nets[iface]) :
                           Cardinality({e \in its :
                              /\ e.m.desc = want[1]
                              /\ e.m.value = want[2]
                              /\ e.m.valueType = "counter"}) = 1

C8_Witness ==
  /\ BothOK
  /\ Len(Doc.Containers) >= 1
  /\ StatsAt(1) # Nil
  /\ Cardinality(DOMAIN StatsAt(1).Networks) = 2
  /\ Cardinality(NetworkSamples(Of(Emitted, 1))) = 16

\* current - previous as the integer it is: a sign and a magnitude
SignedDelta(current, previous) ==
  IF LessU64(current, previous)
    THEN [neg |-> TRUE, mag |-> SubU64(previous, current)]
    ELSE [neg |-> FALSE, mag |-> SubU64(current, previous)]

\* C9: when both timestamps parse and read - preread is not zero, the
\* ecs_cpu_utilized value is (current - previous) / elapsed * 1024 with
\* current - previous the mathematical difference, negative when current is
\* smaller than previous; 2000000000, 1000000000 and 1 s give 1024.
C9_CpuUtilizedIsMathematicalDelta ==
  (/\ cpu.pc = "computed"
   /\ cpu.s.Read.zone = "Z"
   /\ cpu.s.PreRead.zone = "Z"
   /\ (cpu.s.Read.sec - cpu.s.PreRead.sec) * 1000000000
        + (cpu.s.Read.nsec - cpu.s.PreRead.nsec) # 0) =>
    /\ cpu.value.kind = "quot"
    /\ cpu.value.den.sat = "none"
    /\ cpu.value.den.ns =
         (cpu.s.Read.sec - cpu.s.PreRead.sec) * 1000000000
           + (cpu.s.Read.nsec - cpu.s.PreRead.nsec)
    /\ cpu.value.scale = 1024
    /\ [neg |-> FALSE, mag |-> cpu.value.num] =
         SignedDelta(cpu.s.CPUStats.CPUUsage.TotalUsage,
                     cpu.s.PreCPUStats.CPUUsage.TotalUsage)
    /\ (/\ cpu.s.CPUStats.CPUUsage.TotalUsage = U64(2000000000)
        /\ cpu.s.PreCPUStats.CPUUsage.TotalUsage = U64(1000000000)
        /\ cpu.value.den.ns = 1000000000) =>
         cpu.value.num = U64(cpu.value.den.ns)

\* C10: the task ID set by SetTaskID, and the one in the document that
\* RetrieveTaskMetadata returns, is the part of the task ARN after its last
\* "/", and the whole ARN when it has no "/".
C10_TaskIDAfterLastSlash ==
  t.pc \in {"set", "returned"} =>
    IF \E i \in 1..Len(t.md.TaskARN) : t.md.TaskARN[i] = Slash
      THEN \E i \in 1..Len(t.md.TaskARN) :
             /\ t.md.TaskARN[i] = Slash
             /\ \A j \in (i + 1)..Len(t.md.TaskARN) : t.md.TaskARN[j] # Slash
             /\ t.md.TaskID = SubSeq(t.md.TaskARN, i + 1, Len(t.md.TaskARN))
      ELSE t.md.TaskID = t.md.TaskARN

C10_Witness ==
  /\ t.pc = "returned"
  /\ t.md.TaskARN = <<"/", "1", "/", "t">>
  /\ t.md.TaskID = <<"t">>

\* C11: for every non-empty task ARN, the task ID set by SetTaskID (and the
\* one in the document RetrieveTaskMetadata returns) is non-empty.
C11_TaskIDNonEmpty ==
  (t.pc \in {"set", "returned"} /\ t.md.TaskARN # <<>>) => t.md.TaskID # <<>>

\* C12: when a scrape is cancelled while one of its upstream GETs is in
\* flight, the context Collect handed to that GET is cancelled, so the GET
\* can return without the upstream's answer; a scrape that was not cancelled
\* never has its GET ended by a cancellation.
C12_CancelAbortsFetch ==
  \A s \in 1..MaxScrapes :
    /\ (InFlight(fetch[s]) /\ fetch[s].cancelled) =>
         Done(fetch[s].ctx, fetch[s].cancelled)
    /\ (fetch[s].pc = "returned" /\ ~fetch[s].cancelled) =>
         fetch[s].err # "context canceled"

\* the timestamps of stats s do not both parse, or they parse and read is
\* not later than preread
NoElapsedTime(s) ==
  \/ s.Read.zone # "Z"
  \/ s.PreRead.zone # "Z"
  \/ s.Read.sec < s.PreRead.sec
  \/ (s.Read.sec = s.PreRead.sec /\ s.Read.nsec <= s.PreRead.nsec)

\* C13: Collect never panics and returns, whatever the upstream delivers:
\* a failed metadata or stats fetch, a container without stats, timestamps
\* that do not parse, zero or negative elapsed time, no cores, no
\* interfaces; every container that has stats gets its ecs_cpu_utilized
\* sample and all its other samples, also when no elapsed time can be
\* computed.
C13_CollectNeverPanics ==
  scrape.active =>
    /\ scrape.outcome = "returned"
    /\ BothOK =>
         LET all == Emitted
         IN \A i \in 1..Len(Doc.Containers) :
              StatsAt(i) # Nil =>
                /\ CountOf(Of(all, i), "ecs_cpu_utilized") = 1
                /\ Cardinality(Of(all, i)) = FullCount(StatsAt(i))

C13_Witness ==
  /\ BothOK
  /\ scrape.outcome = "returned"
  /\ Len(Doc.Containers) = 2
  /\ StatsAt(2) = Nil
  /\ StatsAt(1) # Nil
  /\ StatsAt(1).Read.zone # "Z"
  /\ NoElapsedTime(StatsAt(1))
  /\ StatsAt(1).CPUStats.CPUUsage.PercpuUsage = <<>>
  /\ DOMAIN StatsAt(1).Networks = {}
  /\ CountOf(Of(Emitted, 1), "ecs_cpu_utilized") = 1
  /\ Cardinality(Of(Emitted, 1)) = 5

\* the steps of the current Collect call that are requests to the upstream
Requests == {k \in 1..Len(scrape.trace) : scrape.trace[k].kind = "GET"}

\* step k sends one sample with descriptor fqName
SendsAt(k, fqName) ==
  /\ scrape.trace[k].kind = "send"
  /\ \E m \in scrape.trace[k].ms : m.desc = fqName

\* C14: the requests of a Collect call are at most one GET of
\* <endpoint>/task followed by at most one GET of <endpoint>/task/stats, all
\* to the collector's endpoint; the stats GET comes only after a metadata
\* GET that succeeded and after the info and the two service-level samples
\* were sent; after a failed GET no further request is made.
C14_FixedRequestSequence ==
  scrape.active =>
    /\ Requests = Gets("/task") \cup Gets("/task/stats")
    /\ \A k \in Requests :
         scrape.trace[k].uri[1] = collectors[scrape.collector].client.endpoint
    /\ Gets("/task") = {1}
    /\ Cardinality(Gets("/task/stats")) <= 1
    /\ \A k \in Gets("/task/stats") :
         /\ scrape.mdResp.err = "none"
         /\ \A fqName \in {"ecs_metadata_info", "ecs_svc_cpu_limit",
                           "ecs_svc_memory_limit_bytes"} :
              \E j \in 2..(k - 1) : SendsAt(j, fqName)
    /\ scrape.mdResp.err # "none" => Requests = {1}
    /\ (scrape.mdResp.err = "none" /\ scrape.stResp.err # "none") =>
         /\ Cardinality(Requests) = 2
         /\ \A k \in 1..Len(scrape.trace) : k \in Requests \/ k < 5

C14_Witness ==
  /\ scrape.active
  /\ scrape.mdResp.err = "none"
  /\ scrape.stResp.err = "none"
  /\ Len(Doc.Containers) = 2
  /\ StatsAt(1) # Nil
  /\ StatsAt(2) # Nil
  /\ Gets("/task") = {1}
  /\ Gets("/task/stats") = {5}
  /\ Len(scrape.trace) > 5

\* C15: once a collector has been built, no later step (a Collect call, the
\* construction of another collector) changes the label-name lists and the
\* descriptors that Collect builds its samples from.
C15_CatalogReadOnly ==
  [][collectors # <<>> => pkgVars' = pkgVars]_vars

\* C16: the descriptor of every sample a Collect call sends, those of
\* ecs_metadata_info, ecs_svc_cpu_limit and ecs_svc_memory_limit_bytes
\* included, is among the descriptors Describe sends.
C16_DescribeCoversCollect ==
  scrape.active =>
    \A e \in Emitted :
      \E k \in 1..Len(Describe) :
        Describe[k] = NewDesc(e.m.desc, e.m.labelNames)

=============================================================================
